---- MODULE Spec2Model ----
(***************************************************************************)
(* Model of panasoniceolia/session.py: the Session object of the Eolia     *)
(* client, its six operations and the exceptions they raise.               *)
(*                                                                         *)
(* Python values are modelled as records [type, value]; a response text is *)
(* a record that says whether json.loads accepts it and, if so, which      *)
(* document it decodes to.  A JSON document is split by member kind:       *)
(* `fields` holds its scalar members, `lists` its array members.           *)
(***************************************************************************)
EXTENDS Integers, Sequences, FiniteSets, TLC

VARIABLES
    _devices,   \* self._devices: 0 for None, else the address of a list
    heap,       \* the list objects alive: address -> sequence of summaries
    held,       \* the list the caller got from its last successful get_devices
    op,         \* name of the last operation called ("none" before any call)
    arg,        \* its arguments [id, kwargs]
    resp,       \* what the transport answered to its request
    payload,    \* the JSON body of the last PUT set_device sent
    exc,        \* the exception the call raised (kind "none": it returned)
    ret         \* the value the call returned

vars == <<_devices, heap, held, op, arg, resp, payload, exc, ret>>
session == <<_devices, heap, held>>

----------------------------------------------------------------------------
(* Bounds and input domains *)

\* longest ac_list the device-list endpoint answers with
MaxEntries == 2

\* status codes on both sides of every comparison the code makes
Statuses == {200, 204, 299, 300, 404}

Ids == {"ac1", "ac2"}

----------------------------------------------------------------------------
(* Python values *)

PyInt(n) == [type |-> "int", value |-> n]
PyStr(n) == [type |-> "str", value |-> n]
PyBool(b) == [type |-> "bool", value |-> IF b THEN 1 ELSE 0]
Member(cls, code) == [type |-> cls, value |-> code]

EmptyMap == [k \in {} |-> PyInt(0)]
EmptyLists == [k \in {} |-> <<>>]
EmptyDoc == [fields |-> EmptyMap, lists |-> EmptyLists]

\* A response body: text that json.loads rejects, or the text of a document.
RawText(s) == [json |-> FALSE, raw |-> s, doc |-> EmptyDoc]
JsonText(d) == [json |-> TRUE, raw |-> "", doc |-> d]

\* An attribute that holds either a str (the text itself) or a decoded object.
AttrNone == [kind |-> "None", str |-> RawText(""), obj |-> EmptyDoc]
AttrStr(t) == [kind |-> "str", str |-> t, obj |-> EmptyDoc]
AttrObj(d) == [kind |-> "object", str |-> RawText(""), obj |-> d]

\* json.loads(text): the decoded document, or JSONDecodeError
json_loads_ok(text) == text.json
json_loads(text) == text.doc

----------------------------------------------------------------------------
(* constants.py: the four enumerations, by the wire codes of their members *)

EnumCodes(cls) ==
    CASE cls = "Power" -> {0, 1}
      [] cls = "OperationMode" -> {0, 1, 2, 3, 4}
      [] cls = "FanSpeed" -> {0, 1, 2, 3}
      [] cls = "AirSwingUD" -> {0, 1, 2}

\* cls(v): the member whose value is v; Enum raises ValueError when none is
EnumCallOk(cls, v) == v.type = "int" /\ v.value \in EnumCodes(cls)
EnumCall(cls, v) == Member(cls, v.value)

\* isinstance(value, cls)
isinstance(value, cls) == value.type = cls

----------------------------------------------------------------------------
(* Exceptions *)

NoExc == [kind |-> "none", status_code |-> 0, text |-> AttrNone]
Raise(kind) == [kind |-> kind, status_code |-> 0, text |-> AttrNone]

\* `raise ResponseError(status_code, text)`: __init__ decodes text with
\* json.loads, whose JSONDecodeError leaves the constructor instead.
ResponseError(status_code, text) ==
    IF json_loads_ok(text)
    THEN [kind |-> "ResponseError", status_code |-> status_code,
          text |-> AttrObj(json_loads(text))]
    ELSE Raise("JSONDecodeError")

_validate_response(response) ==
    IF 2 = response.status_code \div 100
    THEN NoExc
    ELSE ResponseError(response.status_code, response.text)

----------------------------------------------------------------------------
(* Transport: what one request comes back with *)

TransportFailure == [kind |-> "RequestException", status_code |-> 0, text |-> RawText("")]
Answer(status, text) == [kind |-> "response", status_code |-> status, text |-> text]

----------------------------------------------------------------------------
(* Parameter codec *)

HasKey(d, key) == key \in (DOMAIN d.fields \cup DOMAIN d.lists)

\* the _convert table of _read_parameters
_convert ==
    [inside_temp |-> "temperatureInside",
     outside_temp |-> "temperatureOutside",
     temperature |-> "temperature"]

\* the four enum-decoded wire keys, their domain key and their class
EnumFields ==
    [operation_status |-> [key |-> "power", cls |-> "Power"],
     operation_mode |-> [key |-> "mode", cls |-> "OperationMode"],
     wind_volume |-> [key |-> "fanSpeed", cls |-> "FanSpeed"],
     wind_direction |-> [key |-> "airSwingVertical", cls |-> "AirSwingUD"]]

\* wire keys of the two tables, and the domain key each is stored under
TableKeys == DOMAIN _convert \cup DOMAIN EnumFields
DomainKey(w) == IF w \in DOMAIN _convert THEN _convert[w] ELSE EnumFields[w].key

\* the value stored for wire key w: copied, or looked up in the enum class
Decoded(parameters, w) ==
    IF w \in DOMAIN _convert THEN parameters.fields[w]
    ELSE EnumCall(EnumFields[w].cls, parameters.fields[w])

\* an enum lookup of _read_parameters that raises ValueError
LookupFails(parameters, w) ==
    /\ w \in DOMAIN EnumFields
    /\ HasKey(parameters, w)
    /\ ~EnumCallOk(EnumFields[w].cls, parameters.fields[w])

\* a variant that stores a default where the wire key is absent
_read_parameters_defaults(parameters) ==
    LET found == {w \in TableKeys : HasKey(parameters, w)}
        wireOf(k) == CHOOSE w \in TableKeys : DomainKey(w) = k
    IN  IF \E w \in found : LookupFails(parameters, w)
        THEN [raised |-> "ValueError", value |-> EmptyMap]
        ELSE [raised |-> "none",
              value |-> [k \in {DomainKey(w) : w \in TableKeys} |->
                            IF wireOf(k) \in found
                            THEN Decoded(parameters, wireOf(k))
                            ELSE PyInt(0)]]

\* a variant that skips an enum member whose code it does not know
_read_parameters_skip(parameters) ==
    LET found == {w \in TableKeys :
                    HasKey(parameters, w) /\ ~LookupFails(parameters, w)}
        wireOf(k) == CHOOSE w \in found : DomainKey(w) = k
    IN  [raised |-> "none",
         value |-> [k \in {DomainKey(w) : w \in found} |->
                        Decoded(parameters, wireOf(k))]]

\* _read_parameters(parameters): [raised, value]; an enum lookup that finds
\* no member raises ValueError and no value is returned.
_read_parameters(parameters) ==
    LET found == {w \in TableKeys : HasKey(parameters, w)}
        wireOf(k) == CHOOSE w \in found : DomainKey(w) = k
    IN  IF \E w \in found : LookupFails(parameters, w)
        THEN [raised |-> "ValueError", value |-> EmptyMap]
        ELSE [raised |-> "none",
              value |-> [k \in {DomainKey(w) : w \in found} |->
                            Decoded(parameters, wireOf(k))]]

\* the settings set_device translates, their wire key and expected class
\* ("" for temperature, which is copied without a type test)
Settings ==
    [power |-> [wire |-> "operation_status", cls |-> "Power"],
     temperature |-> [wire |-> "temperature", cls |-> ""],
     mode |-> [wire |-> "operation_mode", cls |-> "OperationMode"],
     fanSpeed |-> [wire |-> "wind_volume", cls |-> "FanSpeed"],
     airSwingVertical |-> [wire |-> "wind_direction", cls |-> "AirSwingUD"]]

\* a variant that tests the key alone
Accepted_any(key, value) == key \in DOMAIN Settings

\* the branch of the kwargs loop that stores the setting named key
Accepted(key, value) ==
    /\ key \in DOMAIN Settings
    /\ (key = "temperature" \/ isinstance(value, Settings[key].cls))

\* the members set_device forces after the loop
FixedFields ==
    [airquality |-> PyBool(FALSE),
     nanoex |-> PyBool(TRUE),
     silence_control |-> PyBool(FALSE),
     timer_value |-> PyInt(0)]

\* a variant that forces the fixed members first and then copies every
\* keyword argument it does not translate
Payload_update(kwargs) ==
    LET taken == {k \in DOMAIN kwargs : Accepted(k, kwargs[k])}
        settingOf(w) == CHOOSE k \in taken : Settings[k].wire = w
        wires == {Settings[k].wire : k \in taken}
        others == DOMAIN kwargs \ DOMAIN Settings
    IN  [w \in wires \cup DOMAIN FixedFields \cup others |->
            IF w \in others THEN kwargs[w]
            ELSE IF w \in DOMAIN FixedFields THEN FixedFields[w]
            ELSE IF settingOf(w) = "temperature" THEN kwargs[settingOf(w)]
            ELSE PyInt(kwargs[settingOf(w)].value)]

\* the payload set_device builds from kwargs
Payload(kwargs) ==
    LET taken == {k \in DOMAIN kwargs : Accepted(k, kwargs[k])}
        settingOf(w) == CHOOSE k \in taken : Settings[k].wire = w
        wires == {Settings[k].wire : k \in taken}
    IN  [w \in wires \cup DOMAIN FixedFields |->
            IF w \in DOMAIN FixedFields THEN FixedFields[w]
            ELSE IF settingOf(w) = "temperature" THEN kwargs[settingOf(w)]
            ELSE PyInt(kwargs[settingOf(w)].value)]

----------------------------------------------------------------------------
(* Return values *)

NoRet == [kind |-> "none", id |-> "", parameters |-> EmptyMap,
          doc |-> EmptyDoc, ref |-> 0]
RetNone == [NoRet EXCEPT !.kind = "None"]
RetTrue == [NoRet EXCEPT !.kind = "True"]
RetStatus(id, parameters) ==
    [NoRet EXCEPT !.kind = "dict", !.id = id, !.parameters = parameters]
RetDoc(d) == [NoRet EXCEPT !.kind = "json", !.doc = d]
RetList(a) == [NoRet EXCEPT !.kind = "list", !.ref = a]

Raised(e) == [exc |-> e, ret |-> NoRet]
Returned(v) == [exc |-> NoExc, ret |-> v]

----------------------------------------------------------------------------
(* The operations that keep no state: their outcome [exc, ret] *)

\* Session.login
login_outcome(response) ==
    IF response.kind = "RequestException" THEN Raised(Raise("LoginError"))
    ELSE IF 2 # response.status_code \div 100
    THEN Raised(ResponseError(response.status_code, response.text))
    ELSE IF _validate_response(response).kind # "none"
    THEN Raised(_validate_response(response))
    ELSE Returned(RetNone)

\* Session.dump
dump_outcome(id, response) ==
    IF response.kind = "RequestException" THEN Raised(Raise("RequestError"))
    ELSE IF response.status_code # 200
    THEN Raised(ResponseError(response.status_code, response.text))
    ELSE IF _validate_response(response).kind # "none"
    THEN Raised(_validate_response(response))
    ELSE IF ~json_loads_ok(response.text) THEN Raised(Raise("JSONDecodeError"))
    ELSE Returned(RetDoc(json_loads(response.text)))

\* Session.get_device
get_device_outcome(id, response) ==
    IF response.kind = "RequestException" THEN Raised(Raise("RequestError"))
    ELSE IF response.status_code # 200
    THEN Raised(ResponseError(response.status_code, response.text))
    ELSE IF _validate_response(response).kind # "none"
    THEN Raised(_validate_response(response))
    ELSE IF ~json_loads_ok(response.text) THEN Raised(Raise("JSONDecodeError"))
    ELSE LET p == _read_parameters(json_loads(response.text))
         IN  IF p.raised # "none" THEN Raised(Raise(p.raised))
             ELSE Returned(RetStatus(id, p.value))

\* a variant with the status test of get_device
set_device_outcome_200(id, response) ==
    IF response.kind = "RequestException" THEN Raised(Raise("RequestError"))
    ELSE IF response.status_code # 200
    THEN Raised(ResponseError(response.status_code, response.text))
    ELSE IF ~json_loads_ok(response.text) THEN Raised(Raise("JSONDecodeError"))
    ELSE Returned(RetTrue)

\* Session.set_device, from the request on
set_device_outcome(id, response) ==
    IF response.kind = "RequestException" THEN Raised(Raise("RequestError"))
    ELSE IF 2 # response.status_code \div 100
    THEN Raised(ResponseError(response.status_code, response.text))
    ELSE IF _validate_response(response).kind # "none"
    THEN Raised(_validate_response(response))
    ELSE IF ~json_loads_ok(response.text) THEN Raised(Raise("JSONDecodeError"))
    ELSE Returned(RetTrue)

NoArg == [id |-> "", kwargs |-> EmptyMap]
NoResponse == [kind |-> "none", status_code |-> 0, text |-> RawText("")]

login(response) ==
    /\ op' = "login"
    /\ arg' = NoArg
    /\ resp' = response
    /\ exc' = login_outcome(response).exc
    /\ ret' = login_outcome(response).ret
    /\ UNCHANGED <<session, payload>>

logout ==
    /\ op' = "logout"
    /\ arg' = NoArg
    /\ resp' = NoResponse
    /\ exc' = NoExc
    /\ ret' = RetNone
    /\ UNCHANGED <<session, payload>>

dump(id, response) ==
    /\ op' = "dump"
    /\ arg' = [id |-> id, kwargs |-> EmptyMap]
    /\ resp' = response
    /\ exc' = dump_outcome(id, response).exc
    /\ ret' = dump_outcome(id, response).ret
    /\ UNCHANGED <<session, payload>>

get_device(id, response) ==
    /\ op' = "get_device"
    /\ arg' = [id |-> id, kwargs |-> EmptyMap]
    /\ resp' = response
    /\ exc' = get_device_outcome(id, response).exc
    /\ ret' = get_device_outcome(id, response).ret
    /\ UNCHANGED <<session, payload>>

set_device(id, kwargs, response) ==
    /\ op' = "set_device"
    /\ arg' = [id |-> id, kwargs |-> kwargs]
    /\ resp' = response
    /\ payload' = Payload(kwargs)
    /\ exc' = set_device_outcome(id, response).exc
    /\ ret' = set_device_outcome(id, response).ret
    /\ UNCHANGED session

----------------------------------------------------------------------------
(* Session.get_devices and the list objects *)

Addresses == {1, 2, 3}

\* the summary get_devices appends for one entry of ac_list
Summary(device) ==
    [id |-> device["appliance_id"],
     name |-> device["nickname"],
     model |-> device["product_code"]]

SummaryKeys == {"appliance_id", "nickname", "product_code"}

\* the entries the loop gets through before an entry lacks a key (KeyError)
RECURSIVE Appended(_)
Appended(devices) ==
    IF devices = <<>> THEN <<>>
    ELSE IF ~(SummaryKeys \subseteq DOMAIN Head(devices)) THEN <<>>
    ELSE <<Summary(Head(devices))>> \o Appended(Tail(devices))

\* [exc, list]: how the call ends and what the new list holds by then
get_devices_outcome(response) ==
    IF response.kind = "RequestException"
    THEN [exc |-> Raise("Error"), list |-> <<>>]
    ELSE IF 2 # response.status_code \div 100
    THEN [exc |-> ResponseError(response.status_code, response.text), list |-> <<>>]
    ELSE IF _validate_response(response).kind # "none"
    THEN [exc |-> _validate_response(response), list |-> <<>>]
    ELSE IF ~json_loads_ok(response.text)
    THEN [exc |-> Raise("JSONDecodeError"), list |-> <<>>]
    ELSE IF ~HasKey(json_loads(response.text), "ac_list")
    THEN [exc |-> Raise("KeyError"), list |-> <<>>]
    ELSE LET devices == json_loads(response.text).lists["ac_list"]
         IN  [exc |-> IF Len(Appended(devices)) < Len(devices)
                      THEN Raise("KeyError") ELSE NoExc,
              list |-> Appended(devices)]

\* a variant that appends to the list the session already has
get_devices_append(response) ==
    LET a == IF _devices = 0 THEN 1 ELSE _devices
        old == IF _devices = 0 THEN <<>> ELSE heap[_devices]
        out == get_devices_outcome(response)
    IN  /\ op' = "get_devices"
        /\ arg' = NoArg
        /\ resp' = response
        /\ exc' = out.exc
        /\ ret' = IF out.exc.kind = "none" THEN RetList(a) ELSE NoRet
        /\ _devices' = a
        /\ held' = IF out.exc.kind = "none" THEN a ELSE held
        /\ heap' = [x \in {a, held'} \ {0} |->
                        IF x = a THEN old \o out.list ELSE heap[x]]
        /\ UNCHANGED payload

\* a variant that binds the new list only once the response is accepted
get_devices_late(response) ==
    LET a == CHOOSE x \in Addresses :
                /\ x \notin {held, _devices}
                /\ \A y \in Addresses \ {held, _devices} : x <= y
        out == get_devices_outcome(response)
        bound == out.exc.kind \notin
                    {"Error", "ResponseError", "JSONDecodeError"}
    IN  /\ op' = "get_devices"
        /\ arg' = NoArg
        /\ resp' = response
        /\ exc' = out.exc
        /\ ret' = IF out.exc.kind = "none" THEN RetList(a) ELSE NoRet
        /\ _devices' = IF bound THEN a ELSE _devices
        /\ held' \in IF out.exc.kind = "none" THEN {held, a} ELSE {held}
        /\ heap' = [x \in {_devices', held'} \ {0} |->
                        IF x = a THEN out.list ELSE heap[x]]
        /\ UNCHANGED payload

\* `self._devices = []` binds a new list object, at address a; the caller
\* keeps the list it holds or, when the call returns, may take the new one.
get_devices(response) ==
    LET a == CHOOSE x \in Addresses :
                /\ x \notin {held, _devices}
                /\ \A y \in Addresses \ {held, _devices} : x <= y
        out == get_devices_outcome(response)
    IN  /\ op' = "get_devices"
        /\ arg' = NoArg
        /\ resp' = response
        /\ exc' = out.exc
        /\ ret' = IF out.exc.kind = "none" THEN RetList(a) ELSE NoRet
        /\ _devices' = a
        /\ held' \in IF out.exc.kind = "none" THEN {held, a} ELSE {held}
        /\ heap' = [x \in {a, held'} \ {0} |->
                        IF x = a THEN out.list ELSE heap[x]]
        /\ UNCHANGED payload

----------------------------------------------------------------------------
(* Inputs *)

RawTexts == {RawText("<html>"), RawText("")}

\* bodies of the operations that do not look into the document
PlainTexts == RawTexts \cup {JsonText(EmptyDoc)}

Responses(texts) ==
    {TransportFailure} \cup {Answer(st, t) : st \in Statuses, t \in texts}

Absent == [type |-> "absent", value |-> 0]
Present(r) == [k \in {k \in DOMAIN r : r[k] # Absent} |-> r[k]]

\* status documents: every combination of absent and present members, enum
\* members with a code of every class (1), of OperationMode alone (4), of none
Codes == {Absent, PyInt(1), PyInt(4), PyInt(999)}
StatusRecords ==
    [inside_temp : {Absent, PyInt(25)},
     outside_temp : {Absent, PyInt(31)},
     temperature : {Absent, PyInt(23)},
     operation_status : Codes,
     operation_mode : Codes,
     wind_volume : Codes,
     wind_direction : Codes,
     nanoex : {Absent, PyBool(TRUE)}]
StatusText(r) == JsonText([fields |-> Present(r), lists |-> EmptyLists])

\* device-list documents
Entries ==
    {[appliance_id |-> "id1", nickname |-> "Living", product_code |-> "CS-A"],
     [appliance_id |-> "id2", nickname |-> "Bed", product_code |-> "CS-A"],
     [appliance_id |-> "id3", product_code |-> "CS-B"]}
AcLists == UNION {[1..n -> Entries] : n \in 0..MaxEntries}
ListText(l) == JsonText([fields |-> EmptyMap, lists |-> [ac_list |-> l]])
\* answers to the device-list request: every status with the plain bodies,
\* and a device list under an accepted and a rejected status
ListResponses ==
    Responses(PlainTexts) \cup
    {Answer(st, ListText(l)) : st \in {200, 404}, l \in AcLists}

\* keyword arguments of set_device: each supported setting absent, a member
\* of its class, a member of another class with the same code, or a str;
\* and settings set_device does not translate
Mistyped(cls) == {Member(IF cls = "Power" THEN "FanSpeed" ELSE "Power", 1), PyStr(7)}
KwargRecords ==
    [power : {Absent, Member("Power", 1)} \cup Mistyped("Power"),
     mode : {Absent, Member("OperationMode", 1)} \cup Mistyped("OperationMode"),
     fanSpeed : {Absent, Member("FanSpeed", 1)} \cup Mistyped("FanSpeed"),
     airSwingVertical : {Absent, Member("AirSwingUD", 1)} \cup Mistyped("AirSwingUD"),
     temperature : {Absent, PyInt(23), PyStr(7)},
     airquality : {Absent, PyBool(TRUE)},
     ecoMode : {Absent, PyInt(1)}]

----------------------------------------------------------------------------
(* Specifications *)

Init ==
    /\ _devices = 0
    /\ heap = [x \in {} |-> <<>>]
    /\ held = 0
    /\ op = "none"
    /\ arg = NoArg
    /\ resp = NoResponse
    /\ payload = EmptyMap
    /\ exc = NoExc
    /\ ret = NoRet

Login == \E r \in Responses(PlainTexts) : login(r)
Logout == logout
GetDevices == \E r \in ListResponses : get_devices(r)
Dump ==
    \E id \in Ids, r \in Responses(PlainTexts) \cup
            {Answer(st, StatusText(d)) : st \in Statuses, d \in StatusRecords} :
        dump(id, r)
GetDevice ==
    \E id \in Ids, r \in Responses(PlainTexts) \cup
            {Answer(st, StatusText(d)) : st \in Statuses, d \in StatusRecords} :
        get_device(id, r)
SetDevice ==
    \E id \in Ids, k \in KwargRecords, r \in Responses(PlainTexts) :
        set_device(id, Present(k), r)

\* the life of a session around its device list
Next == Login \/ Logout \/ GetDevices
Spec == Init /\ [][Next]_vars

\* one call of any operation on a new session
FirstCall == op = "none"
NextCall ==
    \/ FirstCall /\ Login
    \/ FirstCall /\ GetDevices
    \/ FirstCall /\ Dump
    \/ FirstCall /\ GetDevice
    \/ FirstCall /\ SetDevice
SpecCall == Init /\ [][NextCall]_vars

----------------------------------------------------------------------------
(* Properties *)

Answered == resp.kind = "response"
Returns == exc.kind = "none"
Body == resp.text

\* the statuses each operation turns away
Rejects(o, status) ==
    IF o \in {"get_device", "dump"} THEN status # 200 ELSE status \div 100 # 2

\* C1: when login, get_devices, get_device, dump or set_device receives a
\* status it rejects, whatever the body, the call fails with ResponseError
\* and nothing else, carrying the received status and the response body (the
\* body counts as carried both as the text and as the document it decodes to)
C1_RejectedStatusRaisesResponseError ==
    (/\ op \in {"login", "get_devices", "get_device", "dump", "set_device"}
     /\ Answered
     /\ Rejects(op, resp.status_code))
    => /\ exc.kind = "ResponseError"
       /\ exc.status_code = resp.status_code
       /\ \/ exc.text = AttrStr(Body)
          \/ (json_loads_ok(Body) /\ exc.text = AttrObj(json_loads(Body)))

\* C2 as claimed: set_device fails, with ResponseError, on every status other
\* than 200 and returns true only on 200 (stated for the bodies a
\* ResponseError can be built from, the case C1 does not touch)
C2_SetDeviceRequires200 ==
    (op = "set_device" /\ Answered /\ resp.status_code # 200)
    => /\ ret.kind # "True"
       /\ ~Returns
       /\ (json_loads_ok(Body) => exc.kind = "ResponseError")

\* C2 as amended: set_device accepts the whole 2xx range.  It returns true
\* exactly for a 2xx status whose body decodes as JSON; on a status outside
\* 2xx it never returns true and fails, with ResponseError carrying the status
\* when the body decodes and with the JSON decoding error otherwise
C2_SetDeviceAccepts2xx ==
    (op = "set_device" /\ Answered)
    => /\ (ret.kind = "True" <=>
             (resp.status_code \div 100 = 2 /\ json_loads_ok(Body)))
       /\ (ret.kind = "True" => Returns)
       /\ (resp.status_code \div 100 # 2 =>
             /\ ~Returns
             /\ exc.kind = IF json_loads_ok(Body) THEN "ResponseError"
                           ELSE "JSONDecodeError"
             /\ (json_loads_ok(Body) => exc.status_code = resp.status_code))

C2_Witness ==
    /\ op = "set_device"
    /\ Answered
    /\ resp.status_code = 204
    /\ ret.kind = "True"

\* the parameter set the claims expect of a document: each table key present
\* in it under its domain key, enum codes as members of their class
ExpectedKeyOf ==
    [inside_temp |-> "temperatureInside", outside_temp |-> "temperatureOutside",
     temperature |-> "temperature", operation_status |-> "power",
     operation_mode |-> "mode", wind_volume |-> "fanSpeed",
     wind_direction |-> "airSwingVertical"]
ExpectedClassOf ==
    [power |-> "Power", mode |-> "OperationMode", fanSpeed |-> "FanSpeed",
     airSwingVertical |-> "AirSwingUD"]
ExpectedParameters(d) ==
    LET found == DOMAIN ExpectedKeyOf \cap DOMAIN d.fields
        wireOf(k) == CHOOSE w \in found : ExpectedKeyOf[w] = k
    IN  [k \in {ExpectedKeyOf[w] : w \in found} |->
            IF k \in DOMAIN ExpectedClassOf
            THEN Member(ExpectedClassOf[k], d.fields[wireOf(k)].value)
            ELSE d.fields[wireOf(k)]]

\* C3: get_device and dump return only on status 200; every other status
\* fails with ResponseError and a transport failure with RequestError; on
\* 200 get_device returns {id, parameters} decoded by the codec and dump the
\* decoded body as it is
C3_GetAndDumpRequire200 ==
    (op \in {"get_device", "dump"})
    => /\ (Returns => (Answered /\ resp.status_code = 200))
       /\ ((Answered /\ resp.status_code # 200) => exc.kind = "ResponseError")
       /\ (~Answered => exc.kind = "RequestError")
       /\ ((Returns /\ op = "get_device") =>
             ret = RetStatus(arg.id, ExpectedParameters(json_loads(Body))))
       /\ ((Returns /\ op = "dump") => ret = RetDoc(json_loads(Body)))

\* C4: login fails with LoginError on a transport failure, with ResponseError
\* on a status outside 2xx, and on 2xx returns leaving the session as it was
C4_LoginOutcomeByCause ==
    (op = "login")
    => /\ (~Answered => exc.kind = "LoginError")
       /\ ((Answered /\ resp.status_code \div 100 # 2) =>
             exc.kind = "ResponseError")
       /\ ((Answered /\ resp.status_code \div 100 = 2) =>
             /\ Returns
             /\ ret = RetNone
             /\ _devices = 0 /\ held = 0 /\ DOMAIN heap = {})

\* the type the claims expect of each setting, and its wire key
ExpectedType(key, value) ==
    IF key = "temperature" THEN value.type \in {"int", "float"}
    ELSE value.type = ExpectedClassOf[key]
WireKeyOf ==
    [power |-> "operation_status", mode |-> "operation_mode",
     fanSpeed |-> "wind_volume", airSwingVertical |-> "wind_direction",
     temperature |-> "temperature"]
FixedKeys == {"airquality", "nanoex", "silence_control", "timer_value"}

\* the call ends as its response alone decides, whatever the settings are
SettingsNeverFail ==
    Returns <=> (Answered /\ resp.status_code \div 100 = 2 /\ json_loads_ok(Body))

FixedValues ==
    /\ FixedKeys \subseteq DOMAIN payload
    /\ payload["airquality"] = PyBool(FALSE)
    /\ payload["nanoex"] = PyBool(TRUE)
    /\ payload["silence_control"] = PyBool(FALSE)
    /\ payload["timer_value"] = PyInt(0)

\* C6 as claimed: the payload holds the four fixed members with their values
\* and its keys are these and the wire keys of the settings supplied
C6_PayloadKeysOfSuppliedSettings ==
    (op = "set_device")
    => /\ FixedValues
       /\ DOMAIN payload =
            FixedKeys \cup {WireKeyOf[k] : k \in DOMAIN WireKeyOf \cap DOMAIN arg.kwargs}

\* C6 as amended: the payload holds the four fixed members with their values
\* and its keys are these and the wire keys of the settings supplied with a
\* value set_device accepts (a member of the enumeration of the key, any
\* value for temperature); no wire key stands for a setting not supplied
C6_PayloadKeysOfAcceptedSettings ==
    (op = "set_device")
    => /\ FixedValues
       /\ DOMAIN payload =
            FixedKeys \cup
            {WireKeyOf[k] : k \in {k \in DOMAIN WireKeyOf \cap DOMAIN arg.kwargs :
                                k = "temperature" \/ ExpectedType(k, arg.kwargs[k])}}
       /\ \A k \in DOMAIN WireKeyOf :
             WireKeyOf[k] \in DOMAIN payload => k \in DOMAIN arg.kwargs

C6_Witness ==
    /\ op = "set_device"
    /\ "airquality" \in DOMAIN arg.kwargs
    /\ "ecoMode" \in DOMAIN arg.kwargs
    /\ "mode" \in DOMAIN arg.kwargs /\ arg.kwargs["mode"].type = "str"
    /\ DOMAIN payload = FixedKeys \cup {"operation_status", "temperature"}

\* C7: in the parameter set decoded from a document a domain key is present
\* only if its wire key is in the document; a wire key absent from the
\* document or outside the table gives no key
C7_OnlyPresentKeysDecoded ==
    (op = "get_device" /\ Returns)
    => /\ \A k \in DOMAIN ret.parameters :
             \E w \in DOMAIN ExpectedKeyOf :
                ExpectedKeyOf[w] = k /\ w \in DOMAIN json_loads(Body).fields
       /\ \A w \in DOMAIN ExpectedKeyOf :
             w \notin DOMAIN json_loads(Body).fields =>
                ExpectedKeyOf[w] \notin DOMAIN ret.parameters

C7_Witness ==
    /\ op = "get_device"
    /\ Returns
    /\ DOMAIN json_loads(Body).fields = {"inside_temp", "operation_mode", "nanoex"}
    /\ DOMAIN ret.parameters = {"temperatureInside", "mode"}

\* an enum member of the document whose code is none of its class
UnknownCode(d) ==
    \E w \in {"operation_status", "operation_mode", "wind_volume", "wind_direction"} :
        /\ w \in DOMAIN d.fields
        /\ d.fields[w].value \notin EnumCodes(ExpectedClassOf[ExpectedKeyOf[w]])

\* C8: a status document with an enum code outside its class makes
\* get_device fail with the error of the lookup; no parameter set, partial
\* or with a default in the place of the code, is returned
C8_UnknownCodeFails ==
    (/\ op = "get_device"
     /\ Answered
     /\ resp.status_code = 200
     /\ json_loads_ok(Body)
     /\ UnknownCode(json_loads(Body)))
    => /\ exc.kind = "ValueError"
       /\ ret = NoRet

C8_Witness ==
    /\ op = "get_device"
    /\ Answered
    /\ resp.status_code = 200
    /\ json_loads_ok(Body)
    /\ DOMAIN json_loads(Body).fields = {"temperature", "operation_status", "operation_mode"}
    /\ json_loads(Body).fields["operation_status"] = PyInt(1)
    /\ json_loads(Body).fields["operation_mode"] = PyInt(999)
    /\ exc.kind = "ValueError"

\* the summaries the claims expect of an ac_list
ExpectedSummaries(l) ==
    [i \in 1..Len(l) |->
        [id |-> l[i]["appliance_id"], name |-> l[i]["nickname"],
         model |-> l[i]["product_code"]]]

\* C9: a get_devices call that returns gives one summary per entry of
\* ac_list, in order, with the three members copied; the list returned is the
\* session's list, which holds the entries of this response and no other
C9_ListIsLatestResponse ==
    (op = "get_devices" /\ Returns)
    => /\ ret = RetList(_devices)
       /\ heap[_devices] = ExpectedSummaries(json_loads(Body).lists["ac_list"])

C9_Witness ==
    /\ op = "get_devices"
    /\ Returns
    /\ held # 0 /\ held # _devices
    /\ Len(heap[held]) = 2
    /\ Len(heap[_devices]) = 2
    /\ heap[held] # heap[_devices]

\* a get_devices call that failed through the transport, a rejected status
\* or a document without ac_list
FailedBeforeTheList ==
    /\ op = "get_devices"
    /\ \/ ~Answered
       \/ resp.status_code \div 100 # 2
       \/ (json_loads_ok(Body) /\ "ac_list" \notin DOMAIN json_loads(Body).lists)

\* C10: every get_devices call binds a new list before its request: after a
\* call that failed through the transport, the status or a missing ac_list
\* the session's list is empty, and the list a caller holds from an earlier
\* call is never changed by a later call
C10_ListDiscardedAtStart ==
    /\ [](FailedBeforeTheList =>
            /\ ~Returns
            /\ _devices # 0
            /\ heap[_devices] = <<>>)
    /\ [][(held # 0 /\ held' = held) =>
            /\ held \in DOMAIN heap'
            /\ heap'[held] = heap[held]
            /\ (_devices' # _devices => _devices' # held)]_vars

C10_Witness ==
    /\ FailedBeforeTheList
    /\ ~Answered
    /\ held # 0
    /\ Len(heap[held]) = 2
    /\ _devices # held
    /\ heap[_devices] = <<>>

====
